---- MODULE Spec2Model ----
(***************************************************************************)
(* Model of the agent pool of managers/agent_runner.py (class AgentRunner). *)
(*                                                                         *)
(* run() is one asyncio coroutine (the coordinator); every                  *)
(* _run_single_agent_cycle is one asyncio task.  asyncio runs one           *)
(* coroutine at a time and switches only where an await really suspends:    *)
(* asyncio.sleep, asyncio.wait, the awaits of generate_agents and           *)
(* run_aider (subprocess / executor I/O).  `async with self._agent_lock`    *)
(* does not suspend when the lock is free, and awaiting a finished task     *)
(* does not suspend.  The variable `running` is the coroutine the event     *)
(* loop is executing; Idle means every coroutine is suspended.              *)
(*                                                                         *)
(* The agent files .aider.agent.<type>.md live in the file system and are   *)
(* written by other processes, so the eligible set may change between any   *)
(* two steps.                                                               *)
(***************************************************************************)
EXTENDS Integers, FiniteSets

\* ---- bounds ----
MaxAgents == 2
MaxCount == 2

Agents == 1..MaxAgents
None == 0
\* task objects alive at one time: run() holds at most agent_count of them
MaxTasks == MaxCount
Tasks == 1..MaxTasks

\* who the event loop is executing
Idle == -1
Coord == 0

VARIABLES
    agent_count,        \* run() argument agent_count
    eligible,           \* agent types whose .aider.agent.<type>.md exists
    active_agents,      \* self._active_agents
    agent_lock,         \* self._agent_lock: 0 when free, else the holding task
    running,            \* coroutine executing on the event loop
    run_pc,             \* position of run()
    run_result,         \* "running", "returned" or the exception run() raised
    tasks,              \* run(): tasks
    done,               \* run(): tasks of `done` not yet handled by the for loop
    pending,            \* run(): pending
    fill_i,             \* run(): i of the initial for loop
    fill_n,             \* run(): min(agent_count, len(available_agents))
    task_pc,            \* position of each _run_single_agent_cycle task
    agent_name,         \* _run_single_agent_cycle: agent_name
    task_exc,           \* the task ended (or is ending) with an exception
    sel_available,      \* _select_available_agent: available_agents
    unused_agents,      \* _select_available_agent: unused_agents
    run_log,            \* what the last step of run() gave self.logger
    startup_agents,     \* history: available_agents as evaluated at line 111
    ever_launched,      \* history: some task has been created
    shortage,           \* history: since line 111 fewer than agent_count
                        \* agents were eligible at some moment
    warned              \* history: the warning of line 150 has been logged

vars == << agent_count, eligible,
           active_agents, agent_lock, running, run_pc, run_result, tasks,
           done, pending, fill_i, fill_n, task_pc,
           agent_name, task_exc, sel_available, unused_agents,
           run_log, startup_agents, ever_launched, shortage, warned >>

inputVars == << agent_count >>
runVars == << run_pc, run_result, tasks, done, pending, fill_i, fill_n,
              run_log, startup_agents, ever_launched >>
taskVars == << task_pc, agent_name, task_exc, sel_available, unused_agents >>

\* mutant: max instead of min
Max(a, b) == IF a < b THEN b ELSE a

\* min(agent_count, len(available_agents)), line 116
Min(a, b) == IF a < b THEN a ELSE b

\* ---- pure helpers ----

\* _get_available_agents: the agent types whose file exists
GetAvailableAgents(files) == files

\* _agents_exist: the agent types to (re)generate
AgentsExist(files, force_regenerate) ==
    IF force_regenerate THEN Agents ELSE Agents \ files

\* mutant: every agent type that is not active, whether its file exists or not
UnusedAgents_IgnoreEligible(avail, active) == Agents \ active

\* mutant: the filter on self._active_agents is missing
UnusedAgents_NoFilter(avail, active) == avail

\* unused_agents = [a for a in available_agents if a not in self._active_agents]
UnusedAgents(avail, active) == avail \ active

\* mutant: nothing is removed
Checkin_Keep(active, a) == active

\* mutant: the whole set is cleared
Checkin_Clear(active, a) == {}

\* if agent_name in self._active_agents: self._active_agents.remove(agent_name)
Checkin(active, a) == IF a \in active THEN active \ {a} ELSE active

\* the slot a newly created task takes
FreeSlots == {t \in Tasks : task_pc[t] = "free"}
NewTask == CHOOSE t \in FreeSlots : \A u \in FreeSlots : t <= u

\* positions of run() before available_agents is evaluated at line 111
Startup == {"start", "agents_exist", "generate", "init_pool"}

\* ---- initial state: run() has just been called on a fresh AgentRunner ----
Init ==
    /\ agent_count \in 0..MaxCount
    /\ eligible \in SUBSET Agents
    /\ active_agents = {}
    /\ agent_lock = 0
    /\ running = Coord
    /\ run_pc = "start"
    /\ run_result = "running"
    /\ tasks = {}
    /\ done = {}
    /\ pending = {}
    /\ fill_i = 0
    /\ fill_n = 0
    /\ task_pc = [t \in Tasks |-> "free"]
    /\ agent_name = [t \in Tasks |-> None]
    /\ task_exc = [t \in Tasks |-> FALSE]
    /\ sel_available = [t \in Tasks |-> {}]
    /\ unused_agents = [t \in Tasks |-> {}]
    /\ run_log = {}
    /\ startup_agents = {}
    /\ ever_launched = FALSE
    /\ shortage = FALSE
    /\ warned = FALSE

\* ---- environment: an agent file is created or deleted ----
AgentFileChange ==
    /\ run_result = "running"
    /\ \E a \in Agents :
          eligible' = IF a \in eligible THEN eligible \ {a} ELSE eligible \cup {a}
    /\ shortage' = (shortage \/ (run_pc \notin Startup /\ Cardinality(eligible') < agent_count))
    /\ UNCHANGED << inputVars, active_agents, agent_lock, running, runVars, taskVars,
                    warned >>


\* ---- run(): the coordinator ----

\* what run() never touches
runFrame == << inputVars, active_agents, agent_lock >>
poolVars == << tasks, done, pending, fill_i, fill_n >>
histVars == << startup_agents, shortage, warned >>

\* run() ends by raising exc (lines 99, 113, 124); every Exception is logged
\* and re-raised by lines 155-157, SystemExit is not an Exception
RunRaise(exc) ==
    /\ run_result' = exc
    /\ run_pc' = "exit"
    /\ running' = Idle
    /\ run_log' = IF exc = "SystemExit" THEN {"Mission file not found"}
                                        ELSE {"Error during execution"}

\* lines 88-99: the mission file is validated first; mission_exists is
\* os.path.exists(mission_filepath)
RunStart ==
    /\ run_pc = "start" /\ running = Coord
    /\ \E mission_exists \in BOOLEAN :
          IF ~mission_exists
            THEN RunRaise("SystemExit")
            ELSE /\ run_pc' = "agents_exist"
                 /\ run_log' = {}
                 /\ UNCHANGED << run_result, running >>
    /\ UNCHANGED << runFrame, eligible, poolVars, histVars, ever_launched, taskVars >>

\* lines 102-105: missing agents are generated (an await that suspends);
\* generate_agents is the argument of run()
RunAgentsExist ==
    /\ run_pc = "agents_exist" /\ running = Coord
    /\ \E generate_agents \in BOOLEAN :
          IF AgentsExist(eligible, generate_agents) # {}
            THEN /\ run_pc' = "generate"
                 /\ running' = Idle
                 /\ run_log' = {"Generating agents automatically"}
            ELSE /\ run_pc' = "init_pool"
                 /\ run_log' = {}
                 /\ UNCHANGED running
    /\ UNCHANGED << runFrame, eligible, run_result, poolVars, histVars,
                    ever_launched, taskVars >>

\* line 105 resumes: generate_agents wrote every agent file, or raised
\* (agents_manager.py lines 21-64)
RunGenerateDone ==
    /\ run_pc = "generate" /\ running = Idle
    /\ \E ok \in BOOLEAN :
          IF ok
            THEN /\ eligible' = Agents
                 /\ run_pc' = "init_pool"
                 /\ running' = Coord
                 /\ run_log' = {}
                 /\ UNCHANGED run_result
            ELSE /\ RunRaise("Exception: agent generation failed")
                 /\ UNCHANGED eligible
    /\ UNCHANGED << runFrame, poolVars, histVars, ever_launched, taskVars >>

\* mutant: the check of line 112 is missing
RunInitPool_NoCheck ==
    /\ run_pc = "init_pool" /\ running = Coord
    /\ startup_agents' = GetAvailableAgents(eligible)
    /\ shortage' = (Cardinality(GetAvailableAgents(eligible)) < agent_count)
    /\ fill_n' = Min(agent_count, Cardinality(GetAvailableAgents(eligible)))
    /\ fill_i' = 0
    /\ run_pc' = "fill_loop"
    /\ run_log' = {"Starting with agent_count agents in parallel"}
    /\ UNCHANGED << runFrame, eligible, run_result, running, tasks, done, pending,
                    ever_launched, taskVars, warned >>

\* mutant: `for i in range(agent_count)`, the pool is not capped by the
\* number of eligible agents
RunInitPool_NoMin ==
    /\ run_pc = "init_pool" /\ running = Coord
    /\ startup_agents' = GetAvailableAgents(eligible)
    /\ shortage' = (Cardinality(GetAvailableAgents(eligible)) < agent_count)
    /\ IF GetAvailableAgents(eligible) = {}
         THEN /\ RunRaise("ValueError: No agents available to run")
              /\ UNCHANGED << fill_i, fill_n >>
         ELSE /\ fill_n' = agent_count
              /\ fill_i' = 0
              /\ run_pc' = "fill_loop"
              /\ run_log' = {"Starting with agent_count agents in parallel"}
              /\ UNCHANGED << run_result, running >>
    /\ UNCHANGED << runFrame, eligible, tasks, done, pending, ever_launched,
                    taskVars, warned >>

\* lines 107-116: the initial pool is sized; an empty eligible set is fatal
RunInitPool ==
    /\ run_pc = "init_pool" /\ running = Coord
    /\ startup_agents' = GetAvailableAgents(eligible)
    /\ shortage' = (Cardinality(GetAvailableAgents(eligible)) < agent_count)
    /\ IF GetAvailableAgents(eligible) = {}
         THEN /\ RunRaise("ValueError: No agents available to run")
              /\ UNCHANGED << fill_i, fill_n >>
         ELSE /\ fill_n' = Min(agent_count, Cardinality(GetAvailableAgents(eligible)))
              /\ fill_i' = 0
              /\ run_pc' = "fill_loop"
              /\ run_log' = {"Starting with agent_count agents in parallel"}
              /\ UNCHANGED << run_result, running >>
    /\ UNCHANGED << runFrame, eligible, tasks, done, pending, ever_launched,
                    taskVars, warned >>

\* asyncio.create_task(self._run_single_agent_cycle(...)): the task is
\* scheduled and has not run yet
CreateTask(t) ==
    /\ task_pc' = [task_pc EXCEPT ![t] = "created"]
    /\ agent_name' = [agent_name EXCEPT ![t] = None]
    /\ task_exc' = [task_exc EXCEPT ![t] = FALSE]
    /\ ever_launched' = TRUE
    /\ UNCHANGED << sel_available, unused_agents >>

\* lines 116-121: one task of the initial pool is created, then a 10 s sleep
RunFillLaunch ==
    /\ run_pc = "fill_loop" /\ running = Coord
    /\ fill_i < fill_n
    /\ FreeSlots # {}
    /\ CreateTask(NewTask)
    /\ tasks' = tasks \cup {NewTask}
    /\ run_pc' = "fill_sleep"
    /\ running' = Idle
    /\ run_log' = {}
    /\ UNCHANGED << runFrame, eligible, run_result, done, pending, fill_i,
                    fill_n, histVars >>

\* line 121 resumes: the stagger delay is over
RunFillWake ==
    /\ run_pc = "fill_sleep" /\ running = Idle
    /\ fill_i' = fill_i + 1
    /\ run_pc' = "fill_loop"
    /\ running' = Coord
    /\ run_log' = {}
    /\ UNCHANGED << runFrame, eligible, run_result, tasks, done, pending, fill_n,
                    histVars, ever_launched, taskVars >>

\* mutant: the tasks that finished during the initial for loop are pruned
\* from the set before the while loop
RunFillEnd_DropDone ==
    /\ run_pc = "fill_loop" /\ running = Coord
    /\ fill_i >= fill_n
    /\ IF tasks = {}
         THEN RunRaise("ValueError: No tasks could be created") /\ UNCHANGED tasks
         ELSE /\ tasks' = {t \in tasks : task_pc[t] # "done"}
              /\ run_pc' = "while"
              /\ run_log' = {}
              /\ UNCHANGED << run_result, running >>
    /\ UNCHANGED << runFrame, eligible, done, pending, fill_i, fill_n, histVars,
                    ever_launched, taskVars >>

\* lines 116, 123-124: the for loop is exhausted
RunFillEnd ==
    /\ run_pc = "fill_loop" /\ running = Coord
    /\ fill_i >= fill_n
    /\ IF tasks = {}
         THEN RunRaise("ValueError: No tasks could be created")
         ELSE /\ run_pc' = "while"
              /\ run_log' = {}
              /\ UNCHANGED << run_result, running >>
    /\ UNCHANGED << runFrame, eligible, poolVars, histVars, ever_launched, taskVars >>

\* mutant: `while True:`; asyncio.wait raises ValueError on an empty set
RunWhile_NoEmptyCheck ==
    /\ run_pc = "while" /\ running = Coord
    /\ IF tasks = {}
         THEN RunRaise("ValueError: Set of Tasks/Futures is empty")
         ELSE /\ run_pc' = "wait"
              /\ running' = Idle
              /\ run_log' = {}
              /\ UNCHANGED run_result
    /\ UNCHANGED << runFrame, eligible, poolVars, histVars, ever_launched, taskVars >>

\* lines 127-129: `while tasks:`; run() returns when the set is empty,
\* otherwise it suspends in asyncio.wait
RunWhile ==
    /\ run_pc = "while" /\ running = Coord
    /\ IF tasks = {}
         THEN /\ run_result' = "returned"
              /\ run_pc' = "exit"
         ELSE /\ run_pc' = "wait"
              /\ UNCHANGED run_result
    /\ running' = Idle
    /\ run_log' = {}
    /\ UNCHANGED << runFrame, eligible, poolVars, histVars, ever_launched, taskVars >>

\* line 129 resumes (FIRST_COMPLETED): done holds every task that is
\* finished when the coordinator runs again, pending the others
RunWaitWake ==
    /\ run_pc = "wait" /\ running = Idle
    /\ \E t \in tasks : task_pc[t] = "done"
    /\ done' = {t \in tasks : task_pc[t] = "done"}
    /\ pending' = {t \in tasks : task_pc[t] # "done"}
    /\ run_pc' = "for_done"
    /\ running' = Coord
    /\ run_log' = {}
    /\ UNCHANGED << runFrame, eligible, run_result, tasks, fill_i, fill_n,
                    histVars, ever_launched, taskVars >>

\* the finished task object is dropped once the for loop has handled it
DropTask(t) ==
    /\ task_pc' = [task_pc EXCEPT ![t] = "free"]
    /\ agent_name' = [agent_name EXCEPT ![t] = None]
    /\ task_exc' = [task_exc EXCEPT ![t] = FALSE]
    /\ UNCHANGED << sel_available, unused_agents >>

\* lines 138-150: the eligible set is re-read and either the slot is
\* refilled after a 3 s sleep (142-143) or a warning is logged (150);
\* failed is whether line 136 has just logged the task's error
Refill(failed) ==
    IF Cardinality(pending) < agent_count /\ GetAvailableAgents(eligible) # {}
      THEN /\ run_pc' = "settle_sleep"
           /\ running' = Idle
           /\ run_log' = IF failed THEN {"Agent task failed"} ELSE {}
           /\ UNCHANGED warned
      ELSE /\ run_pc' = "for_done"
           /\ running' = Coord
           /\ run_log' = IF failed
                           THEN {"Agent task failed", "Could not replace agent"}
                           ELSE {"Could not replace agent"}
           /\ warned' = TRUE

\* mutant: `await task` without try/except, the task's error leaves run()
RunForDone_NoCatch ==
    /\ run_pc = "for_done" /\ running = Coord
    /\ \E t \in done :
          /\ done' = done \ {t}
          /\ DropTask(t)
          /\ IF task_exc[t]
               THEN RunRaise("Exception: agent task failed") /\ UNCHANGED warned
               ELSE Refill(FALSE) /\ UNCHANGED run_result
    /\ UNCHANGED << runFrame, eligible, tasks, pending, fill_i, fill_n,
                    startup_agents, shortage, ever_launched >>

\* mutant: a failed task is logged and then skipped (`continue`)
RunForDone_NoRefillOnError ==
    /\ run_pc = "for_done" /\ running = Coord
    /\ \E t \in done :
          /\ done' = done \ {t}
          /\ DropTask(t)
          /\ IF task_exc[t]
               THEN /\ run_pc' = "for_done"
                    /\ running' = Coord
                    /\ run_log' = {"Agent task failed"}
                    /\ UNCHANGED warned
               ELSE Refill(FALSE)
    /\ UNCHANGED << runFrame, eligible, run_result, tasks, pending, fill_i,
                    fill_n, startup_agents, shortage, ever_launched >>

\* mutant: after the refresh of line 139 the identities that are no longer
\* eligible are dropped from _active_agents
RunForDone_PruneIneligible ==
    /\ run_pc = "for_done" /\ running = Coord
    /\ \E t \in done :
          /\ done' = done \ {t}
          /\ DropTask(t)
          /\ Refill(task_exc[t])
    /\ active_agents' = active_agents \cap GetAvailableAgents(eligible)
    /\ UNCHANGED << inputVars, agent_lock, eligible, run_result, tasks, pending,
                    fill_i, fill_n, startup_agents, shortage, ever_launched >>

\* mutant: one refill decision for the whole batch of finished tasks
RunForDone_Batch ==
    /\ run_pc = "for_done" /\ running = Coord
    /\ done # {}
    /\ done' = {}
    /\ task_pc' = [t \in Tasks |-> IF t \in done THEN "free" ELSE task_pc[t]]
    /\ agent_name' = [t \in Tasks |-> IF t \in done THEN None ELSE agent_name[t]]
    /\ task_exc' = [t \in Tasks |-> IF t \in done THEN FALSE ELSE task_exc[t]]
    /\ Refill(\E t \in done : task_exc[t])
    /\ UNCHANGED << runFrame, eligible, run_result, tasks, pending, fill_i,
                    fill_n, startup_agents, shortage, ever_launched,
                    sel_available, unused_agents >>

\* mutant: a slot that cannot be refilled is an error, as at line 113
RunForDone_FatalUnfilled ==
    /\ run_pc = "for_done" /\ running = Coord
    /\ \E t \in done :
          /\ done' = done \ {t}
          /\ DropTask(t)
          /\ IF Cardinality(pending) < agent_count /\ GetAvailableAgents(eligible) # {}
               THEN Refill(task_exc[t]) /\ UNCHANGED run_result
               ELSE RunRaise("ValueError: No agents available to run") /\ warned' = TRUE
    /\ UNCHANGED << runFrame, eligible, tasks, pending, fill_i, fill_n,
                    startup_agents, shortage, ever_launched >>

\* lines 132-150: one finished task is handled.  `await task` re-raises the
\* task's exception, which is caught and logged (lines 133-136); then the
\* refill decision is taken
RunForDone ==
    /\ run_pc = "for_done" /\ running = Coord
    /\ \E t \in done :
          /\ done' = done \ {t}
          /\ DropTask(t)
          /\ Refill(task_exc[t])
    /\ UNCHANGED << runFrame, eligible, run_result, tasks, pending, fill_i,
                    fill_n, startup_agents, shortage, ever_launched >>

\* mutant: pending.add(new_task) is missing
RunReplace_Forget ==
    /\ run_pc = "settle_sleep" /\ running = Idle
    /\ FreeSlots # {}
    /\ CreateTask(NewTask)
    /\ run_pc' = "for_done"
    /\ running' = Coord
    /\ run_log' = {"Replaced completed agent"}
    /\ UNCHANGED << runFrame, eligible, run_result, poolVars, histVars >>

\* lines 143-148: the settle delay is over, the replacement task is created
RunReplace ==
    /\ run_pc = "settle_sleep" /\ running = Idle
    /\ FreeSlots # {}
    /\ CreateTask(NewTask)
    /\ pending' = pending \cup {NewTask}
    /\ run_pc' = "for_done"
    /\ running' = Coord
    /\ run_log' = {"Replaced completed agent"}
    /\ UNCHANGED << runFrame, eligible, run_result, tasks, done, fill_i, fill_n,
                    histVars >>

\* lines 132, 153: the for loop is exhausted, tasks = pending
RunForEnd ==
    /\ run_pc = "for_done" /\ running = Coord
    /\ done = {}
    /\ tasks' = pending
    /\ run_pc' = "while"
    /\ run_log' = {}
    /\ UNCHANGED << runFrame, eligible, running, run_result, done, pending,
                    fill_i, fill_n, histVars, ever_launched, taskVars >>

\* ---- _run_single_agent_cycle: one task ----

\* what a task never touches
taskFrame == << inputVars, eligible, runVars, shortage, warned >>

\* mutant: the critical section is entered without taking the lock
Acquire_NoLock(t) ==
    /\ agent_lock = 0
    /\ agent_lock' = agent_lock

\* `async with self._agent_lock` entered by t (lines 239, 255, 460): the
\* free lock is taken without suspending
Acquire(t) ==
    /\ agent_lock = 0
    /\ agent_lock' = t

\* mutant: the block is left without releasing the lock
Release_Leak(t) ==
    agent_lock' = agent_lock

\* the `async with` block of t is left
Release(t) ==
    agent_lock' = IF agent_lock = t THEN 0 ELSE agent_lock

\* lines 208-213, 255: the event loop starts the task, which runs into
\* _select_available_agent and takes the lock
TaskStart(t) ==
    /\ task_pc[t] = "created" /\ running = Idle
    /\ Acquire(t)
    /\ running' = t
    /\ task_pc' = [task_pc EXCEPT ![t] = "select"]
    /\ UNCHANGED << taskFrame, active_agents, agent_name, task_exc,
                    sel_available, unused_agents >>

\* mutant: `if not agent_name:` (lines 214-216) is missing, the cycle goes on
\* to the executor with agent_name None
TaskSelect_NoNoneCheck(t) ==
    /\ task_pc[t] = "select" /\ running = t
    /\ sel_available' = [sel_available EXCEPT ![t] = GetAvailableAgents(eligible)]
    /\ unused_agents' = [unused_agents EXCEPT ![t] =
                            UnusedAgents(GetAvailableAgents(eligible), active_agents)]
    /\ IF UnusedAgents(GetAvailableAgents(eligible), active_agents) = {}
         THEN /\ Release(t)
              /\ task_pc' = [task_pc EXCEPT ![t] = "execute"]
              /\ UNCHANGED running
         ELSE /\ task_pc' = [task_pc EXCEPT ![t] = "choose"]
              /\ UNCHANGED << agent_lock, running >>
    /\ UNCHANGED << taskFrame, active_agents, agent_name, task_exc >>

\* mutant: `await asyncio.sleep(1)` (line 215) is missing, the task returns at
\* once when nothing is unused
TaskSelect_NoSleep(t) ==
    /\ task_pc[t] = "select" /\ running = t
    /\ IF UnusedAgents(GetAvailableAgents(eligible), active_agents) = {}
         THEN /\ Release(t)
              /\ task_pc' = [task_pc EXCEPT ![t] = "done"]
              /\ running' = Idle
              /\ UNCHANGED << sel_available, unused_agents >>
         ELSE /\ task_pc' = [task_pc EXCEPT ![t] = "choose"]
              /\ sel_available' = [sel_available EXCEPT ![t] = GetAvailableAgents(eligible)]
              /\ unused_agents' = [unused_agents EXCEPT ![t] =
                                      UnusedAgents(GetAvailableAgents(eligible), active_agents)]
              /\ UNCHANGED << agent_lock, running >>
    /\ UNCHANGED << taskFrame, active_agents, agent_name, task_exc >>

\* lines 256-260: the eligible set is read and filtered under the lock;
\* with nothing unused the call returns None and the task sleeps 1 s (215)
TaskSelect(t) ==
    /\ task_pc[t] = "select" /\ running = t
    /\ sel_available' = [sel_available EXCEPT ![t] = GetAvailableAgents(eligible)]
    /\ unused_agents' = [unused_agents EXCEPT ![t] =
                            UnusedAgents(GetAvailableAgents(eligible), active_agents)]
    /\ IF UnusedAgents(GetAvailableAgents(eligible), active_agents) = {}
         THEN /\ Release(t)
              /\ task_pc' = [task_pc EXCEPT ![t] = "idle_sleep"]
              /\ running' = Idle
         ELSE /\ task_pc' = [task_pc EXCEPT ![t] = "choose"]
              /\ UNCHANGED << agent_lock, running >>
    /\ UNCHANGED << taskFrame, active_agents, agent_name, task_exc >>

\* mutant: self._active_agents.add(agent_name) is missing
TaskChoose_NoAdd(t) ==
    /\ task_pc[t] = "choose" /\ running = t
    /\ \E a \in unused_agents[t] :
          agent_name' = [agent_name EXCEPT ![t] = a]
    /\ Release(t)
    /\ task_pc' = [task_pc EXCEPT ![t] = "execute"]
    /\ sel_available' = [sel_available EXCEPT ![t] = {}]
    /\ unused_agents' = [unused_agents EXCEPT ![t] = {}]
    /\ UNCHANGED << taskFrame, active_agents, running, task_exc >>

\* mutant: every unused agent is inserted (`update` in place of `add`)
TaskChoose_AddAll(t) ==
    /\ task_pc[t] = "choose" /\ running = t
    /\ \E a \in unused_agents[t] :
          /\ active_agents' = active_agents \cup unused_agents[t]
          /\ agent_name' = [agent_name EXCEPT ![t] = a]
    /\ Release(t)
    /\ task_pc' = [task_pc EXCEPT ![t] = "execute"]
    /\ sel_available' = [sel_available EXCEPT ![t] = {}]
    /\ unused_agents' = [unused_agents EXCEPT ![t] = {}]
    /\ UNCHANGED << taskFrame, running, task_exc >>

\* lines 262-264: random.choice among the unused agents, insertion into
\* _active_agents, the lock is released on return
TaskChoose(t) ==
    /\ task_pc[t] = "choose" /\ running = t
    /\ \E a \in unused_agents[t] :
          /\ active_agents' = active_agents \cup {a}
          /\ agent_name' = [agent_name EXCEPT ![t] = a]
    /\ Release(t)
    /\ task_pc' = [task_pc EXCEPT ![t] = "execute"]
    /\ sel_available' = [sel_available EXCEPT ![t] = {}]
    /\ unused_agents' = [unused_agents EXCEPT ![t] = {}]
    /\ UNCHANGED << taskFrame, running, task_exc >>

\* mutant: `if agent_name:` (line 238) is missing, the finally block goes
\* through the check-in with agent_name None
TaskIdleWake_Checkin(t) ==
    /\ task_pc[t] = "idle_sleep" /\ running = Idle
    /\ task_pc' = [task_pc EXCEPT ![t] = "finally_cycle"]
    /\ running' = t
    /\ sel_available' = [sel_available EXCEPT ![t] = {}]
    /\ unused_agents' = [unused_agents EXCEPT ![t] = {}]
    /\ UNCHANGED << taskFrame, active_agents, agent_lock, agent_name, task_exc >>

\* lines 215-216, 236-238: the idle pause is over, the task returns; with
\* agent_name None the finally block releases nothing
TaskIdleWake(t) ==
    /\ task_pc[t] = "idle_sleep" /\ running = Idle
    /\ task_pc' = [task_pc EXCEPT ![t] = "done"]
    /\ sel_available' = [sel_available EXCEPT ![t] = {}]
    /\ unused_agents' = [unused_agents EXCEPT ![t] = {}]
    /\ UNCHANGED << taskFrame, active_agents, agent_lock, running, agent_name,
                    task_exc >>

\* mutant: the identity is released when run_aider is started, not when it
\* has ended
TaskExecute_EarlyCheckin(t) ==
    /\ task_pc[t] = "execute" /\ running = t
    /\ \E raises \in BOOLEAN :
          IF raises
            THEN /\ task_exc' = [task_exc EXCEPT ![t] = TRUE]
                 /\ task_pc' = [task_pc EXCEPT ![t] = "finally_execute"]
                 /\ UNCHANGED << running, active_agents >>
            ELSE /\ task_pc' = [task_pc EXCEPT ![t] = "run_aider"]
                 /\ running' = Idle
                 /\ active_agents' = Checkin(active_agents, agent_name[t])
                 /\ UNCHANGED task_exc
    /\ UNCHANGED << taskFrame, agent_lock, agent_name, sel_available,
                    unused_agents >>

\* lines 218-226, 434-449: _execute_agent_cycle is entered; generate_objective
\* is synchronous and may raise, otherwise the task suspends in run_aider
TaskExecute(t) ==
    /\ task_pc[t] = "execute" /\ running = t
    /\ \E raises \in BOOLEAN :
          IF raises
            THEN /\ task_exc' = [task_exc EXCEPT ![t] = TRUE]
                 /\ task_pc' = [task_pc EXCEPT ![t] = "finally_execute"]
                 /\ UNCHANGED running
            ELSE /\ task_pc' = [task_pc EXCEPT ![t] = "run_aider"]
                 /\ running' = Idle
                 /\ UNCHANGED task_exc
    /\ UNCHANGED << taskFrame, active_agents, agent_lock, agent_name,
                    sel_available, unused_agents >>

\* lines 445-455 resume: the aider subprocess ended, run_aider returns or
\* raises; the error is logged and re-raised
TaskAiderDone(t) ==
    /\ task_pc[t] = "run_aider" /\ running = Idle
    /\ \E raises \in BOOLEAN : task_exc' = [task_exc EXCEPT ![t] = raises]
    /\ task_pc' = [task_pc EXCEPT ![t] = "finally_execute"]
    /\ running' = t
    /\ UNCHANGED << taskFrame, active_agents, agent_lock, agent_name,
                    sel_available, unused_agents >>

\* mutant: the finally block of _execute_agent_cycle does not enter
\* `async with self._agent_lock`
TaskFinallyExecute_NoLock(t) ==
    /\ task_pc[t] = "finally_execute" /\ running = t
    /\ task_pc' = [task_pc EXCEPT ![t] = "checkin_execute"]
    /\ UNCHANGED << taskFrame, active_agents, agent_lock, running, agent_name,
                    task_exc, sel_available, unused_agents >>

\* lines 457-460: finally of _execute_agent_cycle, the lock is taken
TaskFinallyExecute(t) ==
    /\ task_pc[t] = "finally_execute" /\ running = t
    /\ Acquire(t)
    /\ task_pc' = [task_pc EXCEPT ![t] = "checkin_execute"]
    /\ UNCHANGED << taskFrame, active_agents, running, agent_name, task_exc,
                    sel_available, unused_agents >>

\* mutant: the task yields to the event loop between the first check-in and
\* the finally block of _run_single_agent_cycle
TaskCheckinExecute_Yield(t) ==
    /\ task_pc[t] = "checkin_execute" /\ running = t
    /\ active_agents' = Checkin(active_agents, agent_name[t])
    /\ Release(t)
    /\ task_pc' = [task_pc EXCEPT ![t] = "finally_cycle"]
    /\ running' = Idle
    /\ UNCHANGED << taskFrame, agent_name, task_exc, sel_available,
                    unused_agents >>

\* lines 461-462: the first check-in; _execute_agent_cycle ends and control
\* is back in _run_single_agent_cycle (lines 228-234)
TaskCheckinExecute(t) ==
    /\ task_pc[t] = "checkin_execute" /\ running = t
    /\ active_agents' = Checkin(active_agents, agent_name[t])
    /\ Release(t)
    /\ task_pc' = [task_pc EXCEPT ![t] = "finally_cycle"]
    /\ UNCHANGED << taskFrame, running, agent_name, task_exc, sel_available,
                    unused_agents >>

\* lines 236-239: finally of _run_single_agent_cycle, the lock is taken
TaskFinallyCycle(t) ==
    /\ task_pc[t] = "finally_cycle" /\ running = t
    /\ Acquire(t)
    /\ task_pc' = [task_pc EXCEPT ![t] = "checkin_cycle"]
    /\ UNCHANGED << taskFrame, active_agents, running, agent_name, task_exc,
                    sel_available, unused_agents >>

\* lines 240-241: the second check-in; the task ends, with the exception
\* re-raised at line 234 if there was one
TaskCheckinCycle(t) ==
    /\ task_pc[t] = "checkin_cycle" /\ running = t
    /\ active_agents' = Checkin(active_agents, agent_name[t])
    /\ Release(t)
    /\ task_pc' = [task_pc EXCEPT ![t] = "done"]
    /\ running' = Idle
    /\ UNCHANGED << taskFrame, agent_name, task_exc, sel_available,
                    unused_agents >>

Next ==
    \/ AgentFileChange
    \/ RunStart
    \/ RunAgentsExist
    \/ RunGenerateDone
    \/ RunInitPool
    \/ RunFillLaunch
    \/ RunFillWake
    \/ RunFillEnd
    \/ RunWhile
    \/ RunWaitWake
    \/ RunForDone
    \/ RunReplace
    \/ RunForEnd
    \/ \E t \in Tasks : TaskStart(t)
    \/ \E t \in Tasks : TaskSelect(t)
    \/ \E t \in Tasks : TaskChoose(t)
    \/ \E t \in Tasks : TaskIdleWake(t)
    \/ \E t \in Tasks : TaskExecute(t)
    \/ \E t \in Tasks : TaskAiderDone(t)
    \/ \E t \in Tasks : TaskFinallyExecute(t)
    \/ \E t \in Tasks : TaskCheckinExecute(t)
    \/ \E t \in Tasks : TaskFinallyCycle(t)
    \/ \E t \in Tasks : TaskCheckinCycle(t)

Spec == Init /\ [][Next]_vars

\* ---- properties ----

\* t holds an identity returned by _select_available_agent and its
\* _execute_agent_cycle has not ended (the first check-in is still to come)
InFlight(t) ==
    task_pc[t] \in {"execute", "run_aider", "finally_execute", "checkin_execute"}

\* run() has evaluated available_agents at line 111
Evaluated ==
    /\ run_pc \notin Startup
    /\ run_result \notin {"SystemExit", "Exception: agent generation failed"}

\* run() has raised to its caller
Raised == run_result \notin {"running", "returned"}

\* C1, mutual exclusion: no two in-flight agent cycles are bound to the
\* same identity, in any reachable state.
C1_MutualExclusion ==
    \A t, u \in Tasks :
        (t # u /\ InFlight(t) /\ InFlight(u)) => agent_name[t] # agent_name[u]

\* two cycles are in flight at once, both suspended in run_aider
C1_Witness ==
    \E t, u \in Tasks :
        /\ t # u
        /\ task_pc[t] = "run_aider"
        /\ task_pc[u] = "run_aider"

\* C2, atomic checkout: whenever _select_available_agent returns an identity
\* to a task, that task holds _agent_lock, the identity passed the test
\* "eligible and not in _active_agents" of this call, it is still absent from
\* _active_agents at the insertion and no other in-flight cycle holds it.
C2_AtomicCheckout ==
    [][\A t \in Tasks :
          (agent_name[t] = None /\ agent_name'[t] # None) =>
              /\ agent_lock = t
              /\ agent_name'[t] \in unused_agents[t]
              /\ agent_name'[t] \notin active_agents
              /\ agent_name'[t] \in active_agents'
              /\ \A u \in Tasks \ {t} :
                    ~(InFlight(u) /\ agent_name[u] = agent_name'[t])]_vars

\* a task is inside the critical section while another cycle holds an
\* identity that is eligible and has been filtered out
C2_Witness ==
    \E t, u \in Tasks :
        /\ t # u
        /\ task_pc[t] = "choose"
        /\ agent_lock = t
        /\ InFlight(u)
        /\ agent_name[u] \in sel_available[t]
        /\ agent_name[u] \notin unused_agents[t]

\* C3, checkout result: the eligible set is read during the call; the
\* returned identity belongs to it, was not in _active_agents before and is
\* added to it; None is returned exactly when no eligible identity is outside
\* _active_agents, and then nothing changes.
C3_CheckoutResult ==
    [][\A t \in Tasks :
          /\ (agent_name[t] = None /\ agent_name'[t] # None) =>
                /\ agent_name'[t] \in sel_available[t]
                /\ agent_name'[t] \notin active_agents
                /\ active_agents' = active_agents \cup {agent_name'[t]}
          /\ (task_pc[t] = "select" /\ task_pc'[t] # "select") =>
                /\ sel_available'[t] = eligible
                /\ (task_pc'[t] = "idle_sleep") <=> (eligible \ active_agents = {})
                /\ (task_pc'[t] = "choose") <=> (eligible \ active_agents # {})
                /\ active_agents' = active_agents
                /\ agent_name'[t] = None]_vars

\* a checkout has returned an identity that was not eligible when run()
\* evaluated the eligible set at startup
C3_Witness ==
    \E t \in Tasks :
        /\ InFlight(t)
        /\ agent_name[t] \notin startup_agents
        /\ agent_name[t] \in active_agents

\* C4, idempotent check-in: a check-in removes exactly the task's identity
\* when it is in _active_agents and changes nothing when it is not; it raises
\* nothing; the second check-in of a cycle leaves the set as the first left it.
C4_IdempotentCheckin ==
    [][\A t \in Tasks :
          (task_pc[t] \in {"checkin_execute", "checkin_cycle"}
             /\ task_pc'[t] # task_pc[t]) =>
              /\ active_agents' = active_agents \ {agent_name[t]}
              /\ (agent_name[t] \notin active_agents => active_agents' = active_agents)
              /\ (task_pc[t] = "checkin_cycle" => active_agents' = active_agents)
              /\ task_exc'[t] = task_exc[t]]_vars

\* a cycle has checked its identity in twice while another identity stays
\* checked out
C4_Witness ==
    \E t \in Tasks :
        /\ task_pc[t] = "done"
        /\ agent_name[t] # None
        /\ agent_name[t] \notin active_agents
        /\ active_agents # {}

\* C5, fail-fast startup: when the eligible set evaluated at line 111 is
\* empty, run() ends with "No agents available to run", no task has ever been
\* created and _active_agents is empty.
C5_FailFast ==
    (Evaluated /\ startup_agents = {}) =>
        /\ run_result = "ValueError: No agents available to run"
        /\ ~ever_launched
        /\ \A t \in Tasks : task_pc[t] = "free"
        /\ active_agents = {}

\* run() has raised on an empty eligible set
C5_Witness ==
    /\ run_result = "ValueError: No agents available to run"
    /\ startup_agents = {}
    /\ agent_count > 0

\* the step ends task t with an exception
EndsWithError(t) ==
    task_pc[t] # "done" /\ task_pc'[t] = "done" /\ task_exc'[t]

\* the step is run() handling the finished task t, which raised
HandlesFailed(t) ==
    t \in done /\ t \notin done' /\ task_exc[t]

\* C6, isolation of failure: when a cycle ends with an error, and when run()
\* handles that error, every other task stays where it is with its identity,
\* the identity of every in-flight cycle is still checked out, and run()
\* neither raises nor leaves its loop.
C6_Isolation ==
    [][\A t \in Tasks :
          (EndsWithError(t) \/ HandlesFailed(t)) =>
              /\ \A u \in Tasks \ {t} :
                    /\ task_pc'[u] = task_pc[u]
                    /\ agent_name'[u] = agent_name[u]
                    /\ task_exc'[u] = task_exc[u]
                    /\ InFlight(u) => agent_name[u] \in active_agents'
              /\ run_result' = "running"
              /\ run_pc' \in {"fill_loop", "fill_sleep", "wait", "for_done", "settle_sleep"}
              /\ pending' = pending]_vars

\* run() has just handled a failed task while another cycle is in flight
C6_Witness ==
    /\ "Agent task failed" \in run_log
    /\ run_result = "running"
    /\ \E u \in Tasks : task_pc[u] = "run_aider" /\ agent_name[u] \in active_agents

\* C7, job-error recovery: a cycle whose executor raised checks its identity
\* in before it ends; run() logs the failure, takes the refill decision for
\* the slot (a replacement when fewer than agent_count tasks are pending and
\* some identity is eligible, a warning otherwise) and keeps running; the
\* replacement task is created when the settle delay ends.
C7_ErrorRecovery ==
    [][/\ \A t \in Tasks :
            /\ (task_pc[t] = "checkin_execute" /\ task_pc'[t] # "checkin_execute"
                  /\ task_exc[t]) => agent_name[t] \notin active_agents'
            /\ EndsWithError(t) => agent_name[t] \notin active_agents'
            /\ HandlesFailed(t) =>
                  /\ "Agent task failed" \in run_log'
                  /\ run_result' = "running"
                  /\ IF Cardinality(pending) < agent_count /\ eligible # {}
                       THEN run_pc' = "settle_sleep"
                       ELSE /\ run_pc' = "for_done"
                            /\ "Could not replace agent" \in run_log'
       /\ (run_pc = "settle_sleep" /\ run_pc' # "settle_sleep") =>
             \E u \in Tasks :
                 /\ task_pc[u] = "free"
                 /\ task_pc'[u] = "created"
                 /\ pending' = pending \cup {u}]_vars

\* run() has logged a failure and is in the settle delay before the
\* replacement, with the failed identity free again
C7_Witness ==
    /\ run_pc = "settle_sleep"
    /\ run_log = {"Agent task failed"}
    /\ active_agents = {}
    /\ run_result = "running"

\* C8 as stated: with a positive agent_count, run() raises only on the empty
\* eligible set of line 112.
C8_Original ==
    (agent_count > 0 /\ Raised) =>
        run_result = "ValueError: No agents available to run"

\* C8 amended: with a positive agent_count, run() raises only during startup,
\* before any task exists: on a missing mission file, on a failed agent
\* generation, or on an empty eligible set.  Once a task has been created
\* run() never raises.
C8_RaisesOnlyAtStartup ==
    /\ (agent_count > 0 /\ Raised) =>
          /\ run_result \in {"SystemExit",
                             "Exception: agent generation failed",
                             "ValueError: No agents available to run"}
          /\ ~ever_launched
    /\ ever_launched => ~Raised

\* a job error has been handled when no replacement could be launched, and
\* run() is still running
C8_Witness ==
    /\ run_pc = "for_done"
    /\ run_log = {"Agent task failed", "Could not replace agent"}
    /\ run_result = "running"
    /\ agent_count > 0

\* tasks created and not finished
LiveTasks == {t \in Tasks : task_pc[t] \notin {"free", "done"}}

\* C9, pool bound: the live tasks, the task objects run() holds and the
\* checked-out identities never number more than agent_count, and a
\* replacement is decided only when fewer than agent_count tasks are pending.
C9_PoolBound ==
    /\ Cardinality(LiveTasks) <= agent_count
    /\ Cardinality(active_agents) <= agent_count
    /\ Cardinality(tasks) <= agent_count
    /\ Cardinality(done \cup pending) <= agent_count
    /\ run_pc = "settle_sleep" => Cardinality(done \cup pending) < agent_count

\* one finished task of a wait has been replaced, another task of the same
\* wait is still to be handled
C9_Witness ==
    /\ run_pc = "for_done"
    /\ run_log = {"Replaced completed agent"}
    /\ done # {}
    /\ pending # {}

\* C10, target convergence: when at least agent_count identities have been
\* eligible since startup, every wait of run() is on exactly agent_count
\* tasks, no checkout fails, and whenever no task is starting, completing or
\* completed, exactly agent_count jobs run on agent_count distinct
\* checked-out identities.
C10_TargetConvergence ==
    (Evaluated /\ ~shortage /\ agent_count > 0) =>
        /\ run_pc \in {"while", "wait"} => Cardinality(tasks) = agent_count
        /\ \A t \in Tasks : task_pc[t] # "idle_sleep"
        /\ (run_pc = "wait" /\ \A t \in tasks : task_pc[t] = "run_aider") =>
              /\ Cardinality({t \in Tasks : task_pc[t] = "run_aider"}) = agent_count
              /\ Cardinality(active_agents) = agent_count
              /\ active_agents = {agent_name[t] : t \in tasks}
              /\ Cardinality(eligible \ active_agents) >= Cardinality(eligible) - agent_count

\* steady state with agent_count = 1 and two eligible identities: one job
\* runs, the other identity is free
C10_Witness ==
    /\ run_pc = "wait"
    /\ ~shortage
    /\ agent_count = 1
    /\ \E t \in tasks : task_pc[t] = "run_aider"
    /\ Cardinality(eligible \ active_agents) = MaxAgents - 1
    /\ run_log = {}

\* ---- fairness: what the asyncio event loop and random.choice guarantee ----

\* the step of the coroutine the event loop is executing
RunStep ==
    \/ RunStart
    \/ RunAgentsExist
    \/ RunInitPool
    \/ RunFillLaunch
    \/ RunFillEnd
    \/ RunWhile
    \/ RunForDone
    \/ RunForEnd
    \/ \E t \in Tasks :
          \/ TaskSelect(t)
          \/ TaskChoose(t)
          \/ TaskExecute(t)
          \/ TaskFinallyExecute(t)
          \/ TaskCheckinExecute(t)
          \/ TaskFinallyCycle(t)
          \/ TaskCheckinCycle(t)

\* run() is resumed: generate_agents, a sleep or asyncio.wait is over
RunWake ==
    \/ RunGenerateDone
    \/ RunFillWake
    \/ RunWaitWake
    \/ RunReplace

\* task t is started or resumed: its sleep or its aider run is over
TaskWake(t) ==
    \/ TaskStart(t)
    \/ TaskIdleWake(t)
    \/ TaskAiderDone(t)

\* a coroutine that is executing runs on to its next await; the ready queue
\* of the event loop is first in, first out, so a coroutine that can be
\* resumed is resumed even though the loop is busy again and again; every
\* aider run ends
LoopFairness ==
    /\ WF_vars(RunStep)
    /\ SF_vars(RunWake)
    /\ \A t \in Tasks : SF_vars(TaskWake(t))

\* random.choice (line 262) is uniform: an identity that is offered again and
\* again is chosen again and again
ChoiceFairness ==
    \A t \in Tasks : \A a \in Agents :
        SF_vars(TaskChoose(t) /\ agent_name'[t] = a)

FairSpec == Spec /\ LoopFairness /\ ChoiceFairness

\* the cycles that hold an identity: live jobs
LiveJobs == {t \in Tasks : InFlight(t)}

\* C11, self-healing, as stated: when the pool is sized at startup, no moment
\* of the run is without an eligible identity and the eligible set settles on
\* E, the number of live jobs comes back to min(agent_count, |E|) again and
\* again.
C11_Original ==
    \A E \in SUBSET Agents :
        ( /\ <>(Evaluated /\ startup_agents # {})
          /\ [](Evaluated => eligible # {})
          /\ <>[](eligible = E) )
        => []<>(Cardinality(LiveJobs) = Min(agent_count, Cardinality(E)))

\* C12, starvation-freedom under shrinkage, as stated: when the pool has been
\* sized at startup and the eligible set settles on E with 1 <= |E| <
\* agent_count, then from some moment on never more than |E| jobs are live,
\* |E| jobs are live again and again, and run() raises no error.
C12_Original ==
    \A E \in SUBSET Agents :
        ( /\ E # {}
          /\ Cardinality(E) < agent_count
          /\ <>(Evaluated /\ startup_agents # {})
          /\ <>[](eligible = E) )
        => /\ <>[](Cardinality(LiveJobs) <= Cardinality(E))
           /\ []<>(Cardinality(LiveJobs) = Cardinality(E))
           /\ []~Raised

\* line 111 found a >= 1 eligible identities, fewer than agent_count
UnderProvisioned ==
    /\ Evaluated
    /\ startup_agents # {}
    /\ Cardinality(startup_agents) < agent_count

\* C13, under-provisioned startup, as stated: with 1 <= a < agent_count
\* eligible identities at line 111, Filling creates a tasks, run() does not
\* raise, and that the target is not met has been reported at the latest when
\* the first completed task has been replaced.
C13_Original ==
    UnderProvisioned =>
        /\ run_pc \in {"fill_loop", "fill_sleep"} =>
              fill_n = Cardinality(startup_agents)
        /\ (run_pc = "fill_loop" /\ fill_i = fill_n) =>
              Cardinality(tasks) = Cardinality(startup_agents)
        /\ ~Raised
        /\ run_log = {"Replaced completed agent"} => warned

\* ---- external stop: SIGINT (Ctrl-C) under asyncio.run, routes.py line 151 ----

\* asyncio.run cancels the main task: CancelledError is raised at the await
\* where run() is suspended (lines 105, 121, 129, 143); it is not an
\* Exception, so lines 133-136 and 155-157 do not catch it and run() ends
Stop ==
    /\ run_result = "running" /\ running = Idle
    /\ run_pc \in {"generate", "fill_sleep", "wait", "settle_sleep"}
    /\ run_result' = "CancelledError"
    /\ run_pc' = "exit"
    /\ run_log' = {}
    /\ UNCHANGED << runFrame, eligible, running, poolVars, histVars,
                    ever_launched, taskVars >>

\* tasks created and not finished
Unfinished == {t \in Tasks : task_pc[t] \in {"created", "idle_sleep", "run_aider"}}

\* asyncio.run then cancels every task that is left: a task not yet started
\* never runs, CancelledError is thrown into the sleep of line 215 or into
\* run_aider (line 445), and the finally blocks check the identity in
Shutdown ==
    /\ run_result = "CancelledError"
    /\ Unfinished # {}
    /\ task_pc' = [t \in Tasks |->
                     IF t \in Unfinished THEN "cancelled" ELSE task_pc[t]]
    /\ active_agents' = active_agents \ {agent_name[t] : t \in Unfinished}
    /\ UNCHANGED << inputVars, eligible, agent_lock, running, runVars, histVars,
                    agent_name, task_exc, sel_available, unused_agents >>

\* the program stops stepping once run() has been cancelled
StopNext ==
    \/ run_result # "CancelledError" /\ Next
    \/ Stop
    \/ Shutdown

StopSpec == Init /\ [][StopNext]_vars

\* C14, cooperative drain, as stated: when run() has ended after a stop
\* signal, no task it created is unfinished and none has been terminated by
\* force.
C14_Original ==
    run_result = "CancelledError" =>
        /\ Unfinished = {}
        /\ \A t \in Tasks : task_pc[t] # "cancelled"

\* C15, eligibility removal is non-interrupting: the step that makes a
\* checked-out identity ineligible changes neither _active_agents nor any
\* task; an identity leaves _active_agents only through the check-in of the
\* cycle that holds it, so it stays checked out while that cycle is in flight;
\* and a checkout that reads the eligible set afterwards does not offer it.
C15_NonInterrupting ==
    [][/\ \A a \in Agents :
             /\ (a \in eligible /\ a \notin eligible' /\ a \in active_agents) =>
                   /\ active_agents' = active_agents
                   /\ task_pc' = task_pc
                   /\ agent_name' = agent_name
                   /\ task_exc' = task_exc
                   /\ run_pc' = run_pc
             /\ (a \in active_agents /\ a \notin active_agents') =>
                   \E t \in Tasks :
                       /\ agent_name[t] = a
                       /\ task_pc[t] = "checkin_execute"
                       /\ task_pc'[t] = "finally_cycle"
       /\ \A t \in Tasks :
             /\ InFlight(t) => agent_name[t] \in active_agents
             /\ (task_pc[t] = "select" /\ task_pc'[t] # "select") =>
                   unused_agents'[t] \subseteq eligible]_vars

\* a job runs on an identity that is no longer eligible and still checked
\* out, and a later checkout of another task did not see that identity
C15_Witness ==
    \E t, u \in Tasks :
        /\ task_pc[t] = "run_aider"
        /\ agent_name[t] \notin eligible
        /\ agent_name[t] \in active_agents
        /\ task_pc[u] = "idle_sleep"
        /\ agent_name[t] \notin sel_available[u]

\* every cycle on x whose executor call is over has failed
FailsAlways(x) ==
    \A t \in Tasks :
        (agent_name[t] = x /\ task_pc[t] \in {"finally_execute", "checkin_execute",
                                              "finally_cycle", "checkin_cycle", "done"})
            => task_exc[t]

\* x has just been returned by a checkout
CheckedOut(x) ==
    \E t \in Tasks : task_pc[t] = "execute" /\ agent_name[t] = x

\* a cycle on x has ended with an error that run() has not handled yet
FailedCycle(x) ==
    \E t \in Tasks : task_pc[t] = "done" /\ agent_name[t] = x /\ task_exc[t]

\* C16, retry of a failing identity: with agent_count = 2, a start-up that
\* succeeds, x eligible throughout and every executor call on x failing, x is
\* checked out again and again; when a failed cycle on x has ended x is free
\* or already checked out again; run() reports every such failure and neither
\* returns nor raises.
C16_Retry ==
    \A x \in Agents :
        ( /\ agent_count = 2
          /\ <>ever_launched
          /\ [](x \in eligible)
          /\ []FailsAlways(x) )
        => /\ []<>CheckedOut(x)
           /\ [](FailedCycle(x) =>
                    \/ x \notin active_agents
                    \/ \E u \in Tasks : InFlight(u) /\ agent_name[u] = x)
           /\ (FailedCycle(x) ~> ("Agent task failed" \in run_log))
           /\ [](run_result = "running")

\* x = 1 has failed, has been reported and is checked out once more
C16_Witness ==
    /\ agent_count = 2
    /\ 1 \in eligible
    /\ FailsAlways(1)
    /\ "Agent task failed" \in run_log
    /\ \E t \in Tasks : task_pc[t] = "run_aider" /\ agent_name[t] = 1

\* C17 as stated: an identity leaves _active_agents only when run() has
\* observed the completion of the task that holds it (the task is in done).
C17_Original ==
    [][\A a \in Agents :
          (a \in active_agents /\ a \notin active_agents') =>
              \E t \in done : agent_name[t] = a]_vars

\* C17 amended: an identity leaves _active_agents only through the first
\* check-in of the cycle that holds it, after its executor call has ended and
\* before the task completes; when run() observes a completed task its
\* identity has already been checked in; and the identity of a cycle whose
\* executor call is running is in _active_agents.
C17_CheckinOrdering ==
    [][/\ \A a \in Agents :
             (a \in active_agents /\ a \notin active_agents') =>
                 \E t \in Tasks \ done :
                     /\ agent_name[t] = a
                     /\ running = t
                     /\ task_pc[t] = "checkin_execute"
                     /\ task_pc'[t] = "finally_cycle"
       /\ \A t \in Tasks :
             /\ task_pc'[t] \in {"execute", "run_aider"} =>
                   agent_name'[t] \in active_agents'
             /\ (t \notin done /\ t \in done') =>
                   /\ task_pc[t] = "done"
                   /\ \/ agent_name[t] = None
                      \/ agent_name[t] \notin active_agents
                      \/ \E u \in Tasks \ {t} :
                            InFlight(u) /\ agent_name[u] = agent_name[t]]_vars

\* a cycle has completed and its identity is free while run() is still
\* suspended in asyncio.wait and has not observed the completion
C17_Witness ==
    /\ run_pc = "wait"
    /\ done = {}
    /\ \E t \in tasks :
          /\ task_pc[t] = "done"
          /\ agent_name[t] # None
          /\ agent_name[t] \notin active_agents

\* C18, checkout happens-before launch: _execute_agent_cycle is entered only
\* from a checkout that returned an identity, with that identity in
\* _active_agents; a task has no identity before its checkout; and a task
\* whose checkout returned None only sleeps and ends, without an executor call.
C18_CheckoutBeforeLaunch ==
    [][\A t \in Tasks :
          /\ (task_pc[t] # "execute" /\ task_pc'[t] = "execute") =>
                /\ task_pc[t] = "choose"
                /\ agent_name'[t] \in unused_agents[t]
                /\ agent_name'[t] \in active_agents'
          /\ task_pc'[t] \in {"execute", "run_aider"} =>
                /\ agent_name'[t] # None
                /\ agent_name'[t] \in active_agents'
          /\ task_pc'[t] \in {"created", "select", "choose", "idle_sleep"} =>
                agent_name'[t] = None
          /\ task_pc[t] = "idle_sleep" => task_pc'[t] \in {"idle_sleep", "done"}
          /\ (task_pc'[t] = "done" /\ agent_name'[t] = None) =>
                task_pc[t] \in {"idle_sleep", "done"}]_vars

\* one task runs the executor on a checked-out identity while the checkout
\* of another task has returned None
C18_Witness ==
    \E t, u \in Tasks :
        /\ task_pc[t] = "run_aider"
        /\ agent_name[t] \in active_agents
        /\ task_pc[u] = "idle_sleep"
        /\ agent_name[u] = None
        /\ unused_agents[u] = {}
        /\ sel_available[u] # {}

\* C19, per-completion refill: the for loop of run() takes the finished tasks
\* of one wait one at a time; for each it decides on the eligible set and on
\* len(pending) as they are at that moment (a replacement created earlier in
\* the same loop counts): a replacement after the settle delay, or the
\* warning; the loop ends, with tasks = pending, only when every finished task
\* has had its decision.
C19_PerCompletionRefill ==
    [][/\ done' # done =>
             \/ /\ run_pc = "wait"
                /\ done = {}
                /\ done' = {t \in tasks : task_pc[t] = "done"}
                /\ done' # {}
             \/ /\ run_pc = "for_done"
                /\ \E t \in done : done' = done \ {t}
                /\ IF Cardinality(pending) < agent_count /\ eligible # {}
                     THEN /\ run_pc' = "settle_sleep"
                          /\ warned' = warned
                     ELSE /\ run_pc' = "for_done"
                          /\ "Could not replace agent" \in run_log'
                          /\ pending' = pending
       /\ (run_pc = "settle_sleep" /\ run_pc' = "for_done") =>
             /\ Cardinality(pending') = Cardinality(pending) + 1
             /\ done' = done
       /\ (run_pc = "for_done" /\ run_pc' = "while") =>
             /\ done = {}
             /\ tasks' = pending]_vars

\* one wait found two finished tasks: the first got the warning, the second
\* is still to be decided and an identity is eligible again
C19_Witness ==
    /\ run_pc = "for_done"
    /\ "Could not replace agent" \in run_log
    /\ done # {}
    /\ eligible # {}

C21_BackOff ==
    [][\A t \in Tasks :
          /\ (task_pc[t] = "select" /\ task_pc'[t] \notin {"select", "choose"}) =>
                /\ task_pc'[t] = "idle_sleep"
                /\ running' = Idle
                /\ ~task_exc'[t]
                /\ run_result' = run_result
          /\ (task_pc[t] = "idle_sleep" /\ task_pc'[t] # "idle_sleep") =>
                /\ running = Idle
                /\ task_pc'[t] = "done"
                /\ ~task_exc'[t]
          /\ (task_pc[t] # "select" /\ task_pc'[t] = "select") =>
                task_pc[t] = "created"
          /\ (task_pc[t] # "created" /\ task_pc'[t] = "created") =>
                \/ run_pc = "settle_sleep" /\ running = Idle
                \/ run_pc = "fill_loop" /\ run_pc' = "fill_sleep"]_vars

\* a checkout has failed although an agent file exists: every eligible
\* identity is checked out, and the task is in its idle sleep
C21_Witness ==
    \E t \in Tasks :
        /\ task_pc[t] = "idle_sleep"
        /\ eligible # {}
        /\ eligible \subseteq active_agents
        /\ sel_available[t] = eligible
        /\ run_pc = "wait"

\* C22, terminal condition, as stated: when run() has returned no job is in
\* flight and no identity is eligible.
C22_Original ==
    run_result = "returned" =>
        /\ LiveJobs = {}
        /\ LiveTasks = {}
        /\ eligible = {}

\* C23, a stuck job holds its identity: as long as a cycle stays in run_aider
\* its identity stays in _active_agents, the cycle does not hold the lock, no
\* checkout offers or returns that identity, and every identity another task
\* checks out meanwhile is a different one.
C23_StuckJob ==
    [][\A t \in Tasks :
          (task_pc[t] = "run_aider" /\ task_pc'[t] = "run_aider") =>
              /\ agent_name'[t] = agent_name[t]
              /\ agent_name[t] \in active_agents'
              /\ agent_lock' # t
              /\ \A u \in Tasks \ {t} :
                    /\ unused_agents'[u] # unused_agents[u] =>
                          agent_name[t] \notin unused_agents'[u]
                    /\ agent_name'[u] # agent_name[u] =>
                          agent_name'[u] # agent_name[t]]_vars

\* a job is in run_aider while run() has just replaced the finished task of
\* the other slot, and an identity other than the held one is eligible
C23_Witness ==
    \E t, u \in Tasks :
        /\ t # u
        /\ task_pc[t] = "run_aider"
        /\ task_pc[u] = "created"
        /\ {t, u} \subseteq pending
        /\ run_log = {"Replaced completed agent"}
        /\ eligible \ {agent_name[t]} # {}

\* the positions of a task inside `async with self._agent_lock`
InCriticalSection(t) ==
    task_pc[t] \in {"select", "choose", "checkin_execute", "checkin_cycle"}

\* C24, single critical section: a task that is at a read or a modification
\* of _active_agents holds _agent_lock, so at most one task is there; every
\* step that changes _active_agents, and every step that reads it to decide
\* a checkout, is taken by the task that holds the lock; run() never holds
\* the lock.
C24_CriticalSection ==
    [][/\ \A t \in Tasks : InCriticalSection(t) => (agent_lock = t /\ running = t)
       /\ \A t, u \in Tasks : (InCriticalSection(t) /\ InCriticalSection(u)) => t = u
       /\ active_agents' # active_agents =>
             \E t \in Tasks : agent_lock = t /\ running = t /\ InCriticalSection(t)
       /\ \A t \in Tasks :
             (unused_agents'[t] # unused_agents[t] /\ unused_agents'[t] # {}) =>
                 (agent_lock = t /\ task_pc[t] = "select")
       /\ running = Coord => agent_lock = 0]_vars

\* a task is inside the critical section for its first check-in while the
\* other task has been created and waits to be started
C24_Witness ==
    \E t, u \in Tasks :
        /\ t # u
        /\ task_pc[t] = "checkin_execute"
        /\ agent_lock = t
        /\ agent_name[t] \in active_agents
        /\ task_pc[u] = "created"

\* C25, stale check-in safety: from the first check-in of a cycle to its
\* second one the task does not yield, its identity is not in
\* _active_agents and no other cycle holds it, so the second check-in
\* removes nothing that another cycle checked out.
C25_StaleCheckin ==
    \A t \in Tasks :
        task_pc[t] \in {"finally_cycle", "checkin_cycle"} =>
            /\ running = t
            /\ agent_name[t] \notin active_agents
            /\ \A u \in Tasks \ {t} : InFlight(u) => agent_name[u] # agent_name[t]

\* a cycle is at its second check-in, its identity is still eligible and a
\* replacement task waits to make a checkout
C25_Witness ==
    \E t, u \in Tasks :
        /\ t # u
        /\ task_pc[t] = "checkin_cycle"
        /\ agent_name[t] \in eligible
        /\ task_pc[u] = "created"
        /\ active_agents = {}

\* C26, the checkout set matches the live jobs: _active_agents is exactly
\* the set of identities of the cycles between checkout and first check-in,
\* and it is empty when run() has ended.
C26_MatchesLiveJobs ==
    /\ active_agents = {agent_name[t] : t \in LiveJobs}
    /\ run_result # "running" => active_agents = {}

\* two jobs are in flight on two identities
C26_Witness ==
    /\ Cardinality(active_agents) = 2
    /\ \A t \in Tasks : task_pc[t] = "run_aider"
    /\ run_pc = "wait"

\* C27, the pool never grows after the initial fill: the live tasks and the
\* tasks run() holds never number more than min(agent_count, identities
\* eligible at line 111); pending and unhandled tasks together never exceed
\* the set that was waited on, a replacement adding one task for one handled
\* task; the set of one wait is no larger than the set of the wait before;
\* at every refill decision len(pending) < agent_count holds, and the refill
\* is skipped exactly when no identity is eligible.
C27_PoolNeverGrows ==
    [][/\ Cardinality(LiveTasks) <= Min(agent_count, Cardinality(startup_agents))
       /\ Cardinality(tasks) <= Min(agent_count, Cardinality(startup_agents))
       /\ run_pc = "for_done" =>
             Cardinality(pending) + Cardinality(done) <= Cardinality(tasks)
       /\ run_pc = "settle_sleep" =>
             Cardinality(pending) + Cardinality(done) < Cardinality(tasks)
       /\ (run_pc = "settle_sleep" /\ run_pc' # "settle_sleep") =>
             Cardinality(pending') = Cardinality(pending) + 1
       /\ (run_pc = "for_done" /\ run_pc' = "while") =>
             Cardinality(tasks') <= Cardinality(tasks)
       /\ (run_pc = "for_done" /\ done' # done) =>
             /\ Cardinality(pending) < agent_count
             /\ run_pc' = "settle_sleep" <=> eligible # {}
             /\ run_pc' = "for_done" <=> eligible = {}]_vars

\* a pool filled with two tasks has lost a slot: run() waits on one task
C27_Witness ==
    /\ run_pc = "wait"
    /\ fill_n = 2
    /\ Cardinality(tasks) = 1
    /\ warned

\* C28, completions during the initial fill are deferred, not lost: while
\* run() is in its initial for loop it handles no task, logs no failure or
\* replacement and holds every task it created; a finished task stays in
\* the set run() holds until the for loop of line 132 has handled it; the
\* wait of line 129 returns every finished task, and handling a task logs
\* its error exactly when it ended with one.
C28_Deferred ==
    [][/\ run_pc \in {"fill_loop", "fill_sleep"} =>
             /\ done = {} /\ pending = {}
             /\ \A t \in Tasks : task_pc[t] # "free" => t \in tasks
             /\ run_log \cap {"Agent task failed", "Replaced completed agent",
                              "Could not replace agent"} = {}
       /\ \A t \in Tasks : task_pc[t] = "done" => t \in tasks \cup pending
       /\ run_pc \in {"for_done", "settle_sleep"} =>
             \A t \in Tasks : task_pc[t] = "done" => t \in done \cup pending
       /\ (run_pc = "wait" /\ run_pc' = "for_done") =>
             /\ done' = {t \in tasks : task_pc[t] = "done"}
             /\ done' # {}
       /\ (run_pc = "for_done" /\ done' # done) =>
             \A t \in done \ done' :
                 task_exc[t] <=> "Agent task failed" \in run_log']_vars

\* a task has failed while the initial for loop still has a task to launch
C28_Witness ==
    \E t \in tasks :
        /\ run_pc = "fill_loop"
        /\ fill_i < fill_n
        /\ task_pc[t] = "done"
        /\ task_exc[t]

\* C29, a failed checkout is free of side effects: the step that finds no
\* unused agent and the step that ends the idle pause leave _active_agents
\* alone, the task has no identity, goes from the idle pause straight to its
\* end without the executor and without a check-in, and ends with no error;
\* run() handles it without logging a failure.
C29_FailedCheckout ==
    [][\A t \in Tasks :
          /\ (task_pc[t] = "select" /\ task_pc'[t] \notin {"select", "choose"}) =>
                /\ task_pc'[t] = "idle_sleep"
                /\ active_agents' = active_agents
                /\ agent_name'[t] = None
                /\ agent_lock' = 0
          /\ (task_pc[t] = "idle_sleep" /\ task_pc'[t] # "idle_sleep") =>
                /\ task_pc'[t] = "done"
                /\ active_agents' = active_agents
                /\ agent_lock' = agent_lock
                /\ agent_name'[t] = None
                /\ ~task_exc'[t]
          /\ (run_pc = "for_done" /\ t \in done \ done' /\ agent_name[t] = None) =>
                "Agent task failed" \notin run_log']_vars

\* run() is about to handle a task whose checkout failed, while another job
\* holds an identity
C29_Witness ==
    \E t \in done :
        /\ run_pc = "for_done"
        /\ task_pc[t] = "done"
        /\ agent_name[t] = None
        /\ ~task_exc[t]
        /\ active_agents # {}

\* C30, the lock is short-held and always released: the lock is free
\* whenever the event loop is idle (every executor invocation, delay and
\* idle pause) and whenever run() runs; its holder is the running task,
\* inside one of the `async with` blocks; a task that has left a block,
\* with an error or without, does not hold it; so every task that asks for
\* the lock gets it at once, whatever the other jobs do.
C30_LockShortHeld ==
    /\ running \in {Idle, Coord} => agent_lock = 0
    /\ \A t \in Tasks :
          /\ agent_lock = t => (running = t /\ InCriticalSection(t))
          /\ ~InCriticalSection(t) => agent_lock # t
          /\ (task_pc[t] = "created" /\ running = Idle) => ENABLED TaskStart(t)
          /\ (task_pc[t] = "finally_execute" /\ running = t) =>
                ENABLED TaskFinallyExecute(t)
          /\ (task_pc[t] = "finally_cycle" /\ running = t) =>
                ENABLED TaskFinallyCycle(t)

\* a job that raised asks for the lock in its finally block while another
\* job is still in run_aider
C30_Witness ==
    \E t, u \in Tasks :
        /\ task_pc[t] = "run_aider"
        /\ task_pc[u] = "finally_execute"
        /\ task_exc[u]
        /\ running = u

====
